---- MODULE Spec2Model ----
(***************************************************************************)
(* Model of the release orchestrator of shipit_workflow/api.py: the        *)
(* handlers add_release, schedule_phase and abandon_release acting on the  *)
(* persisted Release/Phase records and on the Taskcluster queue.           *)
(*                                                                         *)
(* Every handler is one atomic action: it runs from the lookup to the      *)
(* session.commit() (or to the exception that ends the request, in which   *)
(* case nothing is committed).  What the handler returned and the calls it *)
(* made on its collaborators are recorded in response and calls.  A        *)
(* request is taken from the point where the decorators mozilla_accept_    *)
(* token and validate_user have let it through.                            *)
(*                                                                         *)
(* SpecConcurrent runs two requests side by side, each handler split at    *)
(* its database round trips and external calls; what each request holds    *)
(* in its own session is kept in sessions.                                 *)
(***************************************************************************)
EXTENDS Integers, Sequences, FiniteSets, TLC

(* ------------------------------ bounds --------------------------------- *)

\* The number of phases in the phase plan of the largest flavor.
MaxPhases == 3

\* The releases a request can name, one per product.  The flavor of
\* "firefox" has MaxPhases phases, that of "fennec" one phase, and
\* "thunderbird" is of no supported flavor.
Names == {"firefox", "fennec", "thunderbird"}

flavor(name) ==
    CASE name = "firefox" -> MaxPhases
      [] name = "fennec" -> 1
      [] OTHER -> 0

\* utcnow() readings.
Times == {1}

\* flask.g.userinfo['email'] of the caller.
Emails == {"alice"}

(* ------------------------------ values --------------------------------- *)

\* Python's None for a nullable column; a set value v is held as <<v>>.
None == <<>>

Some(v) == <<v>>

\* The three parameters abandon_release deletes, in the order of its loop.
long_params == <<"existing_tasks", "release_history", "release_partner_config">>

\* A parameter bag with the keys K: a long entry holds 0, any other holds 1.
Bag(K) == [k \in K |-> IF k = "other" THEN 1 ELSE 0]

\* The parameter bags a task group's actions.json may carry: one with all
\* the long entries, and one with only some of them.
ParamBags ==
    { Bag({"existing_tasks", "release_history", "release_partner_config", "other"}),
      Bag({"existing_tasks", "other"}) }

NoParams == Bag({})

\* Where a phase's cancellation pipeline may raise; "none" when no call does.
FailSteps ==
    {"none", "fetch_actions_json", "generate_action_task",
     "render_action_task", "createTask"}

\* Task ids: the id of a phase's own task, and the id generate_action_task
\* gives the action task derived from it.
phase_task_id(name, ph) == [kind |-> "phase", name |-> name, phase |-> ph]

action_task_id_of(task_id) == [kind |-> "action", name |-> task_id.name, phase |-> task_id.phase]

(* ------------------------------ state ---------------------------------- *)

VARIABLES
    releases,   \* the committed Release rows with their phases, by name
    queue,      \* the tasks the queue has accepted: [task_id, dependencies]
    sent,       \* per task id, how many createTask calls the queue accepted
    response,   \* what the last request returned
    calls,      \* the steps the last request took on its collaborators
    sessions    \* the requests in flight, when handlers run side by side

vars == <<releases, queue, sent, response, calls, sessions>>

Call(fn, task_id, parameters, dependencies, ok) ==
    [fn |-> fn, task_id |-> task_id, parameters |-> parameters,
     dependencies |-> dependencies, ok |-> ok]

Response(op, name, phase, code) ==
    [op |-> op, name |-> name, phase |-> phase, code |-> code]

Range(s) == {s[i] : i \in DOMAIN s}

\* Mutant: the loop runs over every phase, submitted or not.
SelectEvery(phases) == phases

RECURSIVE SelectSubmitted(_)
\* filter(lambda x: x.submitted, phases)
SelectSubmitted(phases) ==
    IF phases = <<>> THEN <<>>
    ELSE IF Head(phases).submitted
         THEN <<Head(phases)>> \o SelectSubmitted(Tail(phases))
         ELSE SelectSubmitted(Tail(phases))

\* all([ph.submitted for ph in phases])
all_submitted(phases) == \A i \in DOMAIN phases : phases[i].submitted

(* ------------------------------ add_release ---------------------------- *)

\* Release.generate_phases: the phase plan of a supported flavor, each phase
\* with its own task id and not yet submitted.
generate_phases(name, n) ==
    [i \in 1..n |->
        [name |-> i,
         task_id |-> phase_task_id(name, i),
         rendered |-> [taskGroupId |-> phase_task_id(name, i)],
         submitted |-> FALSE,
         completed |-> None,
         completed_by |-> None]]

\* Mutant: the release row is added and committed before its phases are
\* generated, so that it stays behind, without phases, when they are not.
add_release_partial(name) ==
    /\ calls' = <<>>
    /\ UNCHANGED <<queue, sent>>
    /\ IF name \in DOMAIN releases
       THEN /\ response' = Response("add_release", name, 0, 500)
            /\ UNCHANGED releases
       ELSE /\ releases' =
                [x \in DOMAIN releases \cup {name} |->
                    IF x = name
                    THEN [status |-> "scheduled", phases |-> generate_phases(name, flavor(name))]
                    ELSE releases[x]]
            /\ response' = Response("add_release", name, 0,
                                    IF flavor(name) = 0 THEN 400 ELSE 201)

\* body names the release; a flavor without a phase plan makes
\* generate_phases raise UnsupportedFlavor.
add_release(name) ==
    /\ calls' = <<>>
    /\ UNCHANGED <<queue, sent>>
    /\ IF flavor(name) = 0
       THEN /\ response' = Response("add_release", name, 0, 400)
            /\ UNCHANGED releases
       ELSE IF name \in DOMAIN releases
       THEN /\ response' = Response("add_release", name, 0, 500)
            /\ UNCHANGED releases
       ELSE /\ releases' =
                [x \in DOMAIN releases \cup {name} |->
                    IF x = name
                    THEN [status |-> "scheduled", phases |-> generate_phases(name, flavor(name))]
                    ELSE releases[x]]
            /\ response' = Response("add_release", name, 0, 201)

(* ------------------------------ schedule_phase ------------------------- *)

\* Mutant: the flag is set and committed on its own, the two completion
\* fields being left for later.
submit_phase_flag_only(ph, email, now) == [ph EXCEPT !.submitted = TRUE]

\* The phase after lines 141-143.
submit_phase(ph, email, now) ==
    [ph EXCEPT !.submitted = TRUE,
               !.completed_by = Some(email),
               !.completed = Some(now)]

\* Mutant: the release is shipped as soon as the phase just submitted is
\* submitted, its siblings not being looked at.
submit_release_own_phase(release, i, email, now) ==
    [status |-> "shipped",
     phases |-> [release.phases EXCEPT ![i] = submit_phase(@, email, now)]]

\* Mutant: every phase of the release is marked, not the one submitted alone.
submit_release_every_phase(release, i, email, now) ==
    [status |-> "shipped",
     phases |-> [j \in DOMAIN release.phases |->
                   submit_phase(release.phases[j], email, now)]]

\* The release after lines 141-145, phase number i being the one submitted.
submit_release(release, i, email, now) ==
    LET phases == [release.phases EXCEPT ![i] = submit_phase(@, email, now)]
    IN  [status |-> IF all_submitted(phases) THEN "shipped" ELSE release.status,
         phases |-> phases]

\* Mutant: the flag is set and committed before createTask is called.
scheduled_flag_first(release, i, email, now, ok) ==
    IF ok THEN submit_release(release, i, email, now)
    ELSE [release EXCEPT !.phases[i].submitted = TRUE]

\* The committed release after lines 140-146: an exception of createTask
\* ends the request at line 140, before any assignment and before the commit.
scheduled(release, i, email, now, ok) ==
    IF ok THEN submit_release(release, i, email, now) ELSE release

\* Mutant: no check of the flag.
resubmit(ph) == FALSE

\* Line 137.
already_submitted(ph) == ph.submitted

\* ok: whether the queue accepts the createTask call.
schedule_phase(email, name, phase, ok, now) ==
    IF name \notin DOMAIN releases \/ phase \notin DOMAIN releases[name].phases
    THEN /\ response' = Response("schedule_phase", name, phase, 404)
         /\ calls' = <<>>
         /\ UNCHANGED <<releases, queue, sent>>
    ELSE IF already_submitted(releases[name].phases[phase])
    THEN /\ response' = Response("schedule_phase", name, phase, 409)
         /\ calls' = <<>>
         /\ UNCHANGED <<releases, queue, sent>>
    ELSE LET ph == releases[name].phases[phase]
         IN  /\ calls' = <<Call("createTask", ph.task_id, NoParams, <<>>, ok)>>
             /\ queue' = IF ok
                         THEN queue \cup {[task_id |-> ph.task_id, dependencies |-> <<>>]}
                         ELSE queue
             /\ sent' = IF ok THEN [sent EXCEPT ![ph.task_id] = @ + 1] ELSE sent
             /\ releases' = [releases EXCEPT ![name] = scheduled(@, phase, email, now, ok)]
             /\ response' = Response("schedule_phase", name, phase, IF ok THEN 200 ELSE 500)

(* ------------------------------ abandon_release ------------------------ *)

\* del parameters[key], the key being present.
del_param(parameters, key) ==
    [k \in DOMAIN parameters \ {key} |-> parameters[k]]

\* Mutant: nothing is deleted.
strip_nothing(parameters, keys) == [parameters |-> parameters, ok |-> TRUE]

RECURSIVE strip(_, _)
\* Lines 168-169: delete each of keys in turn; a missing key raises KeyError
\* and leaves the entries not yet reached in place.
strip(parameters, keys) ==
    IF keys = <<>> THEN [parameters |-> parameters, ok |-> TRUE]
    ELSE IF Head(keys) \notin DOMAIN parameters
         THEN [parameters |-> parameters, ok |-> FALSE]
         ELSE strip(del_param(parameters, Head(keys)), Tail(keys))

\* render_action_task: the rendered task, with the dependencies of its template.
render_action_task(task_id, parameters, action_task_id) ==
    [task_id |-> task_id, dependencies |-> <<>>]

\* Mutant: the origin task is not made a dependency.
no_dependency(dependencies, task_id) == dependencies

\* Line 176: action_task['dependencies'].append(phase.task_id)
add_dependency(dependencies, task_id) == Append(dependencies, task_id)

\* Lines 159-178 for one phase.  ext.parameters is the parameter bag that
\* generate_action_task returns for the phase's task group, ext.fail the call
\* that raises.  The result holds the steps taken and whether all succeeded.
cancel_phase(phase, ext) ==
    LET fetch == Call("fetch_actions_json", phase.task_id, NoParams, <<>>,
                      ext.fail # "fetch_actions_json")
        action_task_id == action_task_id_of(phase.task_id)
        generate == Call("generate_action_task", action_task_id,
                         IF ext.fail = "generate_action_task" THEN NoParams
                         ELSE ext.parameters,
                         <<>>, ext.fail # "generate_action_task")
        stripped == strip(ext.parameters, long_params)
        del == Call("del", action_task_id, stripped.parameters, <<>>, stripped.ok)
        render == Call("render_action_task", phase.task_id, stripped.parameters, <<>>,
                       ext.fail # "render_action_task")
        action_task == render_action_task(action_task_id, stripped.parameters, phase.task_id)
        create == Call("createTask", action_task_id, NoParams,
                       add_dependency(action_task.dependencies, phase.task_id),
                       ext.fail # "createTask")
    IN  IF ~fetch.ok THEN [calls |-> <<fetch>>, ok |-> FALSE]
        ELSE IF ~generate.ok THEN [calls |-> <<fetch, generate>>, ok |-> FALSE]
        ELSE IF ~del.ok THEN [calls |-> <<fetch, generate, del>>, ok |-> FALSE]
        ELSE IF ~render.ok THEN [calls |-> <<fetch, generate, del, render>>, ok |-> FALSE]
        ELSE [calls |-> <<fetch, generate, del, render, create>>, ok |-> create.ok]

RECURSIVE cancel_phases_on(_, _, _)
\* Mutant: the loop goes on to the next phase when the pipeline of one raised,
\* the collaborators doing for the later phases what they did for that one.
cancel_phases_on(phases, ext, i) ==
    IF i > Len(phases) THEN [calls |-> <<>>, ok |-> TRUE]
    ELSE LET one == cancel_phase(phases[i], ext[IF i \in DOMAIN ext THEN i ELSE Len(ext)])
             rest == cancel_phases_on(phases, ext, i + 1)
         IN  [calls |-> one.calls \o rest.calls, ok |-> one.ok /\ rest.ok]

RECURSIVE cancel_phases(_, _, _)
\* The loop of line 158 from the i-th submitted phase on: it ends at the
\* first phase whose pipeline raises.
cancel_phases(phases, ext, i) ==
    IF i > Len(phases) THEN [calls |-> <<>>, ok |-> TRUE]
    ELSE LET one == cancel_phase(phases[i], ext[i])
         IN  IF ~one.ok THEN [calls |-> one.calls, ok |-> FALSE]
             ELSE LET rest == cancel_phases(phases, ext, i + 1)
                  IN  [calls |-> one.calls \o rest.calls, ok |-> rest.ok]

\* Mutant: the tasks of a request that raised are taken back from the queue.
accepted_if_complete(cs) ==
    IF \E i \in DOMAIN cs : ~cs[i].ok THEN {}
    ELSE { [task_id |-> cs[i].task_id, dependencies |-> cs[i].dependencies] :
             i \in {j \in DOMAIN cs : cs[j].fn = "createTask"} }

\* The tasks the queue accepted among the calls of a request.
Accepted(cs) ==
    { [task_id |-> cs[i].task_id, dependencies |-> cs[i].dependencies] :
        i \in {j \in DOMAIN cs : cs[j].fn = "createTask" /\ cs[j].ok} }

\* Mutant: the status is set whether or not the loop ran to its end.
aborted_always(release, ok) == [release EXCEPT !.status = "aborted"]

\* The committed release after lines 158-181: an exception in the loop ends
\* the request before line 180.
aborted(release, ok) ==
    IF ok THEN [release EXCEPT !.status = "aborted"] ELSE release

\* ext: for each submitted phase the loop enters, what its collaborators do.
abandon_release(name, ext) ==
    IF name \notin DOMAIN releases
    THEN /\ response' = Response("abandon_release", name, 0, 404)
         /\ calls' = <<>>
         /\ UNCHANGED <<releases, queue, sent>>
    ELSE LET release == releases[name]
             run == cancel_phases(SelectSubmitted(release.phases), ext, 1)
         IN  /\ calls' = run.calls
             /\ queue' = queue \cup Accepted(run.calls)
             /\ UNCHANGED sent
             /\ releases' = [releases EXCEPT ![name] = aborted(@, run.ok)]
             /\ response' = Response("abandon_release", name, 0, IF run.ok THEN 200 ELSE 500)

\* Whether the pipeline of a phase raises under ext.
raises(e) == e.fail # "none" \/ ~strip(e.parameters, long_params).ok

\* What the collaborators may do in one abandon_release(name), k phases of
\* the release being submitted: the loop enters m of them, the pipelines of
\* the first m - 1 succeed and, unless the m-th is the last one, the m-th
\* raises.
Externals(name) ==
    LET k == IF name \in DOMAIN releases
             THEN Len(SelectSubmitted(releases[name].phases)) ELSE 0
        Runs(m) ==
            { [i \in 1..m |-> [parameters |-> bags[i],
                               fail |-> IF i = m THEN fail ELSE "none"]] :
                bags \in [1..m -> ParamBags], fail \in FailSteps }
    IN  UNION { { ext \in Runs(m) :
                    /\ \A i \in 1..(m - 1) : ~raises(ext[i])
                    /\ m < k => raises(ext[m]) } :
                m \in (IF k = 0 THEN {0} ELSE 1..k) }

(* ------------------------------ specification -------------------------- *)

PhaseTaskIds == {phase_task_id(name, i) : name \in Names, i \in 1..MaxPhases}

\* The worker processes that serve requests side by side.
Procs == {1, 2}

\* A process that serves no request.
Idle ==
    [op |-> "idle", pc |-> "idle", name |-> "", phase |-> 0, code |-> 0,
     ship |-> FALSE, todo |-> <<>>, created |-> FALSE, during |-> FALSE]

Init ==
    /\ releases = <<>>
    /\ queue = {}
    /\ sent = [t \in PhaseTaskIds |-> 0]
    /\ response = Response("none", "", 0, 0)
    /\ calls = <<>>
    /\ sessions = [p \in Procs |-> Idle]

AddRelease ==
    /\ \E name \in Names : add_release(name)
    /\ UNCHANGED sessions

SchedulePhase ==
    /\ \E email \in Emails, name \in Names, phase \in 1..MaxPhases,
          ok \in BOOLEAN, now \in Times :
           schedule_phase(email, name, phase, ok, now)
    /\ UNCHANGED sessions

AbandonRelease ==
    /\ \E name \in Names :
           \E ext \in Externals(name) : abandon_release(name, ext)
    /\ UNCHANGED sessions

Next == AddRelease \/ SchedulePhase \/ AbandonRelease

Spec == Init /\ [][Next]_vars

\* Releases that are created and submitted to, and never abandoned.
NextSchedule == AddRelease \/ SchedulePhase

SpecSchedule == Init /\ [][NextSchedule]_vars

(* ------------------------------ two callers, one release --------------- *)

\* The caller a process serves: its flask.g.userinfo['email'] and the
\* utcnow() reading of its request.
Caller(p) == [email |-> IF p = 1 THEN "alice" ELSE "bob", now |-> p]

\* The release the requests of the two callers are about.
Shared == "firefox"

AddShared == add_release(Shared) /\ UNCHANGED sessions

SchedulePhaseAs ==
    /\ \E p \in Procs, phase \in 1..MaxPhases, ok \in BOOLEAN :
           schedule_phase(Caller(p).email, Shared, phase, ok, Caller(p).now)
    /\ UNCHANGED sessions

AbandonShared ==
    /\ \E ext \in Externals(Shared) : abandon_release(Shared, ext)
    /\ UNCHANGED sessions

NextActors == AddShared \/ SchedulePhaseAs \/ AbandonShared

\* One release, its phases submitted by either of two callers, one request
\* after the other.
SpecActors == Init /\ [][NextActors]_vars

(* ------------------------------ requests side by side ------------------ *)

\* Whether another process is inside abandon_release(name).
AbortInFlight(p, name) ==
    \E q \in Procs \ {p} :
        /\ sessions[q].op = "abandon_release"
        /\ sessions[q].name = name
        /\ sessions[q].pc = "loop"

Finish(p, code) == [sessions[p] EXCEPT !.pc = "done", !.code = code]

\* schedule_phase, lines 130-138: the query and the check of the flag.
query_phase(p, name, phase) ==
    /\ sessions[p].pc = "idle"
    /\ LET begun == [Idle EXCEPT !.op = "schedule_phase", !.name = name, !.phase = phase]
       IN  sessions' =
             [sessions EXCEPT ![p] =
                IF name \notin DOMAIN releases \/ phase \notin DOMAIN releases[name].phases
                THEN [begun EXCEPT !.pc = "done", !.code = 404]
                ELSE IF already_submitted(releases[name].phases[phase])
                THEN [begun EXCEPT !.pc = "done", !.code = 409]
                ELSE [begun EXCEPT !.pc = "createTask"]]
    /\ UNCHANGED <<releases, queue, sent, response, calls>>

\* schedule_phase, line 140: ok is whether the queue accepts the task.
create_phase_task(p, ok) ==
    /\ sessions[p].pc = "createTask"
    /\ LET task_id == releases[sessions[p].name].phases[sessions[p].phase].task_id
       IN  /\ queue' = IF ok THEN queue \cup {[task_id |-> task_id, dependencies |-> <<>>]}
                       ELSE queue
           /\ sent' = IF ok THEN [sent EXCEPT ![task_id] = @ + 1] ELSE sent
    /\ sessions' =
         [sessions EXCEPT ![p] =
            [@ EXCEPT !.pc = IF ok THEN "assign" ELSE "done",
                      !.code = IF ok THEN 0 ELSE 500,
                      !.created = TRUE,
                      !.during = ok /\ AbortInFlight(p, sessions[p].name)]]
    /\ UNCHANGED <<releases, response, calls>>

\* schedule_phase, lines 141-145: the flag is set in the session and the
\* sibling phases are loaded, as the database holds them now.
assign_phase(p) ==
    /\ sessions[p].pc = "assign"
    /\ LET r == releases[sessions[p].name]
           phases == [r.phases EXCEPT ![sessions[p].phase].submitted = TRUE]
       IN  sessions' = [sessions EXCEPT ![p] =
                          [@ EXCEPT !.pc = "commit", !.ship = all_submitted(phases)]]
    /\ UNCHANGED <<releases, queue, sent, response, calls>>

\* schedule_phase, line 146: the changed columns are written.
commit_phase(p) ==
    /\ sessions[p].pc = "commit"
    /\ LET name == sessions[p].name
           i == sessions[p].phase
       IN  releases' =
             [releases EXCEPT
                ![name].phases[i] = submit_phase(@, Caller(p).email, Caller(p).now),
                ![name].status = IF sessions[p].ship THEN "shipped" ELSE @]
    /\ sessions' = [sessions EXCEPT ![p] = Finish(p, 200)]
    /\ UNCHANGED <<queue, sent, response, calls>>

\* abandon_release, lines 156-158: the release and its phases are loaded.
query_release(p, name) ==
    /\ sessions[p].pc = "idle"
    /\ LET begun == [Idle EXCEPT !.op = "abandon_release", !.name = name]
       IN  sessions' =
             [sessions EXCEPT ![p] =
                IF name \notin DOMAIN releases
                THEN [begun EXCEPT !.pc = "done", !.code = 404]
                ELSE [begun EXCEPT !.pc = "loop",
                                   !.todo = SelectSubmitted(releases[name].phases)]]
    /\ UNCHANGED <<releases, queue, sent, response, calls>>

\* abandon_release, lines 159-178 for the next phase of the loop.
cancel_next(p, ext) ==
    /\ sessions[p].pc = "loop"
    /\ sessions[p].todo # <<>>
    /\ LET one == cancel_phase(Head(sessions[p].todo), ext)
       IN  /\ queue' = queue \cup Accepted(one.calls)
           /\ sessions' =
                [sessions EXCEPT ![p] =
                   IF one.ok THEN [@ EXCEPT !.todo = Tail(@)] ELSE Finish(p, 500)]
    /\ UNCHANGED <<releases, sent, response, calls>>

\* abandon_release, lines 180-181.
commit_abort(p) ==
    /\ sessions[p].pc = "loop"
    /\ sessions[p].todo = <<>>
    /\ releases' = [releases EXCEPT ![sessions[p].name].status = "aborted"]
    /\ sessions' = [sessions EXCEPT ![p] = Finish(p, 200)]
    /\ UNCHANGED <<queue, sent, response, calls>>

\* The release Shared as add_release and earlier schedule_phase calls left
\* it: the phases of S submitted, at least one phase not.
InitConcurrent ==
    \E S \in SUBSET (1..MaxPhases) :
        /\ S # 1..MaxPhases
        /\ releases =
             [x \in {Shared} |->
                [status |-> "scheduled",
                 phases |-> [i \in 1..MaxPhases |->
                               IF i \in S
                               THEN submit_phase(generate_phases(Shared, MaxPhases)[i],
                                                 "alice", 1)
                               ELSE generate_phases(Shared, MaxPhases)[i]]]]
        /\ queue = {[task_id |-> phase_task_id(Shared, i), dependencies |-> <<>>] : i \in S}
        /\ sent = [t \in PhaseTaskIds |->
                     IF t.name = Shared /\ t.phase \in S THEN 1 ELSE 0]
        /\ response = Response("none", "", 0, 0)
        /\ calls = <<>>
        /\ sessions = [p \in Procs |-> Idle]

QueryPhase == \E p \in Procs, phase \in 1..MaxPhases : query_phase(p, Shared, phase)

CreatePhaseTask == \E p \in Procs, ok \in BOOLEAN : create_phase_task(p, ok)

AssignPhase == \E p \in Procs : assign_phase(p)

CommitPhase == \E p \in Procs : commit_phase(p)

QueryRelease == \E p \in Procs : query_release(p, Shared)

CancelNext ==
    \E p \in Procs, bag \in ParamBags, fail \in FailSteps :
        cancel_next(p, [parameters |-> bag, fail |-> fail])

CommitAbort == \E p \in Procs : commit_abort(p)

NextConcurrent ==
    \/ QueryPhase \/ CreatePhaseTask \/ AssignPhase \/ CommitPhase
    \/ QueryRelease \/ CancelNext \/ CommitAbort

SpecConcurrent == InitConcurrent /\ [][NextConcurrent]_vars

(* ------------------------------ properties ----------------------------- *)

\* The submitted phases of a release, by phase number.
Submitted(release) == {i \in DOMAIN release.phases : release.phases[i].submitted}

\* The createTask calls among the steps cs, by position.
Creates(cs) == {i \in DOMAIN cs : cs[i].fn = "createTask"}

\* Whether the queue holds a task with this id.
InQueue(task_id) == \E q \in queue : q.task_id = task_id

LongKeys == Range(long_params)

\* C1: while a release is only ever submitted to, after every call its
\* status is 'shipped' if and only if every one of its phases is submitted,
\* whatever the order the phases were submitted in.
C1_ShippedIffAllSubmitted ==
    \A name \in DOMAIN releases :
        (releases[name].status = "shipped")
            <=> (\A i \in DOMAIN releases[name].phases :
                    releases[name].phases[i].submitted)

\* A release of several phases was shipped by a schedule_phase call, and
\* another one still has a phase to submit.
C1_Witness ==
    /\ response.op = "schedule_phase" /\ response.code = 200
    /\ response.name \in DOMAIN releases
    /\ LET r == releases[response.name]
       IN  /\ Len(r.phases) >= 2
           /\ r.status = "shipped"
           /\ Submitted(r) = DOMAIN r.phases

\* C2: once a release's status is 'shipped' or 'aborted', no later operation
\* changes it.
C2_StatusOnlyForward ==
    [][\A name \in DOMAIN releases :
          releases[name].status \in {"shipped", "aborted"}
              => releases'[name].status = releases[name].status]_vars

\* C3: schedule_phase on a phase already submitted answers 409, calls
\* createTask not at all and changes nothing; on a phase not yet submitted
\* whose task the queue accepts it answers 200 and submits the phase; and no
\* phase's task is accepted by the queue more than once.
C3_ConflictOnResubmit ==
    /\ [](\A t \in DOMAIN sent : sent[t] <= 1)
    /\ [][(/\ response'.op = "schedule_phase"
           /\ response'.name \in DOMAIN releases
           /\ response'.phase \in DOMAIN releases[response'.name].phases)
          => LET name == response'.name
                 i == response'.phase
                 ph == releases[name].phases[i]
             IN  IF ph.submitted
                 THEN /\ response'.code = 409
                      /\ calls' = <<>>
                      /\ UNCHANGED <<releases, queue, sent>>
                 ELSE /\ Len(calls') = 1
                      /\ calls'[1].ok =>
                            /\ response'.code = 200
                            /\ releases'[name].phases[i].submitted
                            /\ sent'[ph.task_id] = sent[ph.task_id] + 1]_vars

\* A second submit of a phase was answered 409, the first one having sent
\* the phase's task to the queue once.
C3_Witness ==
    /\ response.op = "schedule_phase" /\ response.code = 409
    /\ calls = <<>>
    /\ sent[phase_task_id(response.name, response.phase)] = 1
    /\ releases[response.name].phases[response.phase].submitted

\* C4: when createTask raises in schedule_phase, the phase (submitted,
\* completed, completed_by) and the release's status are what they were
\* before the call.
C4_QueueFailureLeavesState ==
    [][(/\ response'.op = "schedule_phase"
        /\ calls' # <<>>
        /\ ~calls'[1].ok)
       => /\ releases'[response'.name].phases[response'.phase]
                = releases[response'.name].phases[response'.phase]
          /\ releases'[response'.name].status = releases[response'.name].status
          /\ releases' = releases]_vars

\* createTask raised for a phase, which is still not submitted.
C4_Witness ==
    /\ response.op = "schedule_phase" /\ response.code = 500
    /\ Len(calls) = 1 /\ calls[1].fn = "createTask" /\ ~calls[1].ok
    /\ LET ph == releases[response.name].phases[response.phase]
       IN  ~ph.submitted /\ ph.completed = None /\ ph.completed_by = None
    /\ releases[response.name].status = "scheduled"

\* C5: a phase is submitted only if the queue has accepted the task of its
\* task_id.
C5_SubmittedOnlyIfAccepted ==
    \A name \in DOMAIN releases :
        \A i \in DOMAIN releases[name].phases :
            releases[name].phases[i].submitted
                => /\ InQueue(releases[name].phases[i].task_id)
                   /\ sent[releases[name].phases[i].task_id] >= 1

\* A phase is submitted, its task is in the queue, and a sibling whose
\* createTask has just failed is not.
C5_Witness ==
    /\ response.op = "schedule_phase" /\ response.code = 500
    /\ \E i \in DOMAIN releases[response.name].phases :
          /\ releases[response.name].phases[i].submitted
          /\ InQueue(releases[response.name].phases[i].task_id)
    /\ ~InQueue(phase_task_id(response.name, response.phase))

\* C6: when any step of the cancellation of a phase fails in abandon_release
\* on a release in status 'scheduled', the status is still 'scheduled' after
\* the call.
C6_FailedAbortKeepsScheduled ==
    [][(/\ response'.op = "abandon_release"
        /\ response'.name \in DOMAIN releases
        /\ releases[response'.name].status = "scheduled"
        /\ \E i \in DOMAIN calls' : ~calls'[i].ok)
       => /\ releases'[response'.name].status = "scheduled"
          /\ response'.code # 200]_vars

\* An abandon_release failed on a second phase after cancelling a first one,
\* and the release is in status 'scheduled'.
C6_Witness ==
    /\ response.op = "abandon_release" /\ response.code = 500
    /\ releases[response.name].status = "scheduled"
    /\ Cardinality(Submitted(releases[response.name])) >= 2
    /\ \E i \in Creates(calls) : calls[i].ok
    /\ ~calls[Len(calls)].ok

\* C7: an abandon_release call creates cancellation tasks only for submitted
\* phases, at most one for each, and none at all when no phase is submitted;
\* when no step fails it creates exactly one for each submitted phase and the
\* release's status is 'aborted' on return.
C7_CancelsExactlySubmitted ==
    [][(/\ response'.op = "abandon_release"
        /\ response'.name \in DOMAIN releases)
       => LET r == releases[response'.name]
              ids == {action_task_id_of(r.phases[i].task_id) : i \in Submitted(r)}
          IN  /\ \A i \in Creates(calls') : calls'[i].task_id \in ids
              /\ \A i, j \in Creates(calls') :
                    calls'[i].task_id = calls'[j].task_id => i = j
              /\ Submitted(r) = {} => calls' = <<>>
              /\ (\A i \in DOMAIN calls' : calls'[i].ok)
                    => /\ \A id \in ids :
                            \E i \in Creates(calls') : calls'[i].task_id = id
                       /\ releases'[response'.name].status = "aborted"
                       /\ response'.code = 200]_vars

\* A release with a submitted and an unsubmitted phase was aborted with one
\* cancellation task.
C7_Witness ==
    /\ response.op = "abandon_release" /\ response.code = 200
    /\ LET r == releases[response.name]
       IN  /\ r.status = "aborted"
           /\ Submitted(r) # {} /\ Submitted(r) # DOMAIN r.phases
           /\ Cardinality(Creates(calls)) = Cardinality(Submitted(r))

\* C8: every submitted phase of a release in status 'aborted' has a
\* cancellation task accepted by the queue.
C8_AbortedMeansCancelled ==
    \A name \in DOMAIN releases :
        releases[name].status = "aborted"
            => \A i \in Submitted(releases[name]) :
                  InQueue(action_task_id_of(releases[name].phases[i].task_id))

\* C9: the parameters given to render_action_task hold none of the three
\* long keys; they are deleted after generate_action_task and before
\* render_action_task, and a cancellation task is created only once rendered.
C9_RenderedWithoutLongParams ==
    \A i \in DOMAIN calls :
        /\ calls[i].fn = "render_action_task"
              => /\ DOMAIN calls[i].parameters \cap LongKeys = {}
                 /\ i >= 3
                 /\ calls[i - 1].fn = "del" /\ calls[i - 1].ok
                 /\ calls[i - 1].parameters = calls[i].parameters
                 /\ calls[i - 2].fn = "generate_action_task"
        /\ (calls[i].fn = "createTask" /\ response.op = "abandon_release")
              => i >= 2 /\ calls[i - 1].fn = "render_action_task"
        /\ calls[i].fn = "del"
              => i >= 2 /\ calls[i - 1].fn = "generate_action_task"

\* A cancellation task was rendered with the parameters {other: 1} left of a
\* bag that held the three long keys, and the queue accepted it.
C9_Witness ==
    /\ response.op = "abandon_release"
    /\ \E i \in Creates(calls) :
          /\ calls[i].ok
          /\ calls[i - 1].fn = "render_action_task"
          /\ calls[i - 1].parameters = Bag({"other"})
          /\ LongKeys \subseteq DOMAIN calls[i - 3].parameters

\* C10: whatever parameter bag generate_action_task returns, the deletion
\* succeeds and leaves exactly the other entries with their values, and the
\* pipeline goes on to render.
C10_StripAnyBag ==
    \A i \in DOMAIN calls :
        (calls[i].fn = "generate_action_task" /\ calls[i].ok)
            => /\ i + 2 <= Len(calls)
               /\ calls[i + 1].fn = "del" /\ calls[i + 1].ok
               /\ calls[i + 1].parameters =
                     [k \in DOMAIN calls[i].parameters \ LongKeys |->
                          calls[i].parameters[k]]
               /\ calls[i + 2].fn = "render_action_task"

\* C11: every cancellation task abandon_release sends to the queue has the
\* origin phase's task_id in its dependencies, the id being the one pinned
\* as action_task_id in the render_action_task call just before.
C11_DependsOnOrigin ==
    /\ \A i \in Creates(calls) :
          response.op = "abandon_release"
              => /\ i >= 2
                 /\ calls[i - 1].fn = "render_action_task"
                 /\ calls[i - 1].task_id \in Range(calls[i].dependencies)
                 /\ calls[i - 1].task_id.kind = "phase"
                 /\ calls[i].task_id = action_task_id_of(calls[i - 1].task_id)
    /\ \A q \in queue :
          q.task_id.kind = "action"
              => phase_task_id(q.task_id.name, q.task_id.phase) \in Range(q.dependencies)

\* The queue accepted a cancellation task that depends on the task of the
\* submitted phase it cancels.
C11_Witness ==
    /\ response.op = "abandon_release"
    /\ \E i \in Creates(calls) :
          /\ calls[i].ok
          /\ \E j \in Submitted(releases[response.name]) :
                /\ releases[response.name].phases[j].task_id \in Range(calls[i].dependencies)
                /\ [task_id |-> action_task_id_of(releases[response.name].phases[j].task_id),
                    dependencies |-> calls[i].dependencies] \in queue

\* C12: a schedule_phase and an abandon_release that ran side by side on one
\* release and both succeeded leave what one of the two serial orders
\* leaves: the phase cancelled and the release aborted (schedule first), or
\* the phase not cancelled and the status decided by the later
\* schedule_phase (abandon first); and no task is accepted for a phase
\* while an abort is under way that then ends without cancelling it.
C12_SubmitAbortSerialized ==
    \A s, a \in Procs :
        (/\ sessions[s].op = "schedule_phase" /\ sessions[s].code = 200
         /\ sessions[a].op = "abandon_release" /\ sessions[a].code = 200
         /\ sessions[s].name = sessions[a].name)
        => LET r == releases[sessions[s].name]
               cancelled ==
                   InQueue(action_task_id_of(r.phases[sessions[s].phase].task_id))
           IN  /\ \/ cancelled /\ r.status = "aborted"
                  \/ /\ ~cancelled
                     /\ r.status = IF Submitted(r) = DOMAIN r.phases
                                   THEN "shipped" ELSE "aborted"
               /\ sessions[s].during => cancelled

\* C13: when schedule_phase calls for different phases of a release ran side
\* by side, all succeeded, and every phase is now submitted, the release is
\* 'shipped'.
C13_ConcurrentSubmitsShip ==
    \A p, q \in Procs :
        (/\ p # q
         /\ sessions[p].op = "schedule_phase" /\ sessions[p].code = 200
         /\ sessions[q].op = "schedule_phase" /\ sessions[q].code = 200
         /\ sessions[p].name = sessions[q].name
         /\ sessions[p].phase # sessions[q].phase
         /\ Submitted(releases[sessions[p].name])
                = DOMAIN releases[sessions[p].name].phases)
        => releases[sessions[p].name].status = "shipped"

\* C14: of two schedule_phase calls on the same phase that ran side by side,
\* no createTask call failing, at most one calls createTask; once both have
\* returned, one was answered 200 and the other 409, and completed_by and
\* completed are those of the call answered 200.
C14_NoConcurrentResubmit ==
    \A p, q \in Procs :
        (/\ p # q
         /\ sessions[p].op = "schedule_phase" /\ sessions[q].op = "schedule_phase"
         /\ sessions[p].name = sessions[q].name
         /\ sessions[p].phase = sessions[q].phase
         /\ sessions[p].phase \in DOMAIN releases[sessions[p].name].phases
         /\ sessions[p].code # 500 /\ sessions[q].code # 500)
        => /\ ~(sessions[p].created /\ sessions[q].created)
           /\ sent[phase_task_id(sessions[p].name, sessions[p].phase)] <= 1
           /\ (sessions[p].pc = "done" /\ sessions[q].pc = "done"
               /\ sessions[p].code = 200)
                 => LET ph == releases[sessions[p].name].phases[sessions[p].phase]
                    IN  /\ sessions[q].code = 409
                        /\ ph.completed_by = Some(Caller(p).email)
                        /\ ph.completed = Some(Caller(p).now)

\* C15: add_release persists the release and its phases in one step: every
\* persisted release has its whole phase plan, a release just created has
\* status 'scheduled', and when generate_phases raises UnsupportedFlavor the
\* caller is answered 400 and nothing is persisted.
C15_AddReleaseAtomic ==
    [][response'.op = "add_release" =>
         LET name == response'.name
         IN  /\ \A x \in DOMAIN releases' :
                    /\ flavor(x) >= 1
                    /\ DOMAIN releases'[x].phases = 1..flavor(x)
                    /\ \A i \in 1..flavor(x) :
                           releases'[x].phases[i].task_id =
                               generate_phases(x, flavor(x))[i].task_id
             /\ response'.code = 201 =>
                    /\ name \notin DOMAIN releases
                    /\ DOMAIN releases' = DOMAIN releases \cup {name}
                    /\ releases'[name].status = "scheduled"
                    /\ releases'[name].phases = generate_phases(name, flavor(name))
                    /\ \A x \in DOMAIN releases : releases'[x] = releases[x]
             /\ response'.code # 201 => releases' = releases
             /\ flavor(name) = 0 <=> response'.code = 400]_vars

\* An unsupported flavor was refused while a release created earlier is there
\* with its phases.
C15_Witness ==
    /\ response.op = "add_release" /\ response.code = 400
    /\ flavor(response.name) = 0
    /\ \E x \in DOMAIN releases :
           releases[x].status = "scheduled" /\ Len(releases[x].phases) >= 2

\* C16: in every persisted state, a phase is submitted iff its completed is
\* set iff its completed_by is set; a schedule_phase call answered 200 sets the
\* three in its one commit, completed_by being the email of the caller.
C16_CompletedWithSubmitted ==
    [][/\ \A x \in DOMAIN releases' : \A i \in DOMAIN releases'[x].phases :
              LET ph == releases'[x].phases[i]
              IN  /\ ph.submitted <=> ph.completed # None
                  /\ ph.submitted <=> ph.completed_by # None
       /\ \A p \in Procs, phase \in 1..MaxPhases :
              (/\ schedule_phase(Caller(p).email, Shared, phase, TRUE, Caller(p).now)
               /\ response'.code = 200)
              => LET old == releases[Shared].phases[phase]
                     new == releases'[Shared].phases[phase]
                 IN  /\ ~old.submitted /\ old.completed = None /\ old.completed_by = None
                     /\ new.submitted
                     /\ new.completed = Some(Caller(p).now)
                     /\ new.completed_by = Some(Caller(p).email)]_vars

\* One phase was submitted by one caller, and another phase has just been
\* submitted by the other.
C16_Witness ==
    /\ response.op = "schedule_phase" /\ response.code = 200
    /\ Shared \in DOMAIN releases
    /\ \E i, j \in DOMAIN releases[Shared].phases :
           /\ i # j /\ response.phase = j
           /\ releases[Shared].phases[i].completed_by = Some("alice")
           /\ releases[Shared].phases[j].completed_by = Some("bob")
           /\ releases[Shared].phases[j].completed = Some(2)

\* C17: abandon_release stops at the first step that fails and retries
\* nothing: among the steps of one call a failed step is the last one, no step
\* is taken twice for the same task, and every step is for a submitted phase
\* of the release.
C17_FailFast ==
    response.op = "abandon_release" =>
        /\ \A i \in DOMAIN calls : ~calls[i].ok => i = Len(calls)
        /\ \A i, j \in DOMAIN calls :
               (calls[i].fn = calls[j].fn /\ calls[i].task_id = calls[j].task_id) => i = j
        /\ \A i \in DOMAIN calls :
               /\ calls[i].task_id.name = response.name
               /\ releases[response.name].phases[calls[i].task_id.phase].submitted

\* A call failed at the first of two submitted phases, and no step was taken
\* for the second.
C17_Witness ==
    /\ response.op = "abandon_release" /\ response.code = 500
    /\ calls # <<>> /\ ~calls[Len(calls)].ok
    /\ \E i, j \in DOMAIN releases[response.name].phases :
           /\ i < j
           /\ releases[response.name].phases[i].submitted
           /\ releases[response.name].phases[j].submitted
           /\ \A c \in DOMAIN calls : calls[c].task_id.phase = i

\* C18: abandon_release takes nothing back: the queue keeps what it held and
\* what it accepted during the call; a call that failed leaves the release as
\* it was, so a 'scheduled' release stays 'scheduled'; and a call, a later one
\* included, in which every step succeeds is answered 200 and sets the status
\* to 'aborted'.
C18_NoRollbackThenAbort ==
    [][(response'.op = "abandon_release" /\ response'.name \in DOMAIN releases) =>
         LET name == response'.name
             failed == \E i \in DOMAIN calls' : ~calls'[i].ok
         IN  /\ queue \subseteq queue'
             /\ \A i \in DOMAIN calls' :
                    (calls'[i].fn = "createTask" /\ calls'[i].ok)
                    => \E t \in queue' : t.task_id = calls'[i].task_id
             /\ failed => (response'.code = 500 /\ releases' = releases)
             /\ ~failed => /\ response'.code = 200
                           /\ releases'[name].status = "aborted"]_vars

\* A call failed at its second phase: the cancellation task of the first is
\* in the queue and the release is still 'scheduled'.
C18_Witness ==
    /\ response.op = "abandon_release" /\ response.code = 500
    /\ releases[response.name].status = "scheduled"
    /\ \E i \in DOMAIN calls :
           /\ calls[i].fn = "createTask" /\ calls[i].ok
           /\ \E t \in queue : t.task_id = calls[i].task_id

\* C19: a phase that is submitted stays submitted, and its completed and
\* completed_by stay what they are, whatever schedule_phase and
\* abandon_release requests are served.
C19_SubmittedOneWay ==
    [][\A x \in DOMAIN releases : \A i \in DOMAIN releases[x].phases :
           releases[x].phases[i].submitted
           => /\ x \in DOMAIN releases'
              /\ releases'[x].phases[i].submitted
              /\ releases'[x].phases[i].completed = releases[x].phases[i].completed
              /\ releases'[x].phases[i].completed_by = releases[x].phases[i].completed_by]_vars

\* C20: a schedule_phase call answered 200 changes, of all that is persisted,
\* only submitted, completed and completed_by of the phase it names and, at
\* most, the status of that phase's release; abandon_release changes only the
\* status of the release it names, and no phase.
C20_Frame ==
    [][LET name == response'.name
           i == response'.phase
           others == /\ DOMAIN releases' = DOMAIN releases
                     /\ \A x \in DOMAIN releases \ {name} : releases'[x] = releases[x]
       IN  /\ (response'.op = "schedule_phase" /\ response'.code = 200) =>
                  /\ others
                  /\ \A j \in DOMAIN releases[name].phases \ {i} :
                         releases'[name].phases[j] = releases[name].phases[j]
                  /\ DOMAIN releases'[name].phases = DOMAIN releases[name].phases
                  /\ releases'[name].phases[i].name = releases[name].phases[i].name
                  /\ releases'[name].phases[i].task_id = releases[name].phases[i].task_id
                  /\ releases'[name].phases[i].rendered = releases[name].phases[i].rendered
           /\ response'.op = "abandon_release" =>
                  /\ others
                  /\ name \in DOMAIN releases =>
                         releases'[name].phases = releases[name].phases]_vars

\* A phase of a release was submitted while a sibling was submitted before,
\* another is not, and a second release is there.
C20_Witness ==
    /\ response.op = "schedule_phase" /\ response.code = 200
    /\ DOMAIN releases # {response.name}
    /\ \E j, k \in DOMAIN releases[response.name].phases :
           /\ j # response.phase /\ k # response.phase
           /\ releases[response.name].phases[j].submitted
           /\ ~releases[response.name].phases[k].submitted

====
